---- MODULE Spec2Model ----
(***************************************************************************)
(* Logits masking of the kbnf Python wrapper.                              *)
(*                                                                         *)
(*   python/kbnf/engine.py             Engine, the slice converters and    *)
(*                                     the torch fast path with its        *)
(*                                     fingerprint cache                   *)
(*   python/kbnf/triton_logits_mask.py mask_logits_inplace and the Triton  *)
(*                                     bitmask kernel                      *)
(*                                                                         *)
(* A tensor is a record [kind, shape, native, data]: data is the flat      *)
(* content (a sequence, token id i at index i + 1), native says the        *)
(* handle is float32, contiguous and on the CPU.  -inf is the number ninf, *)
(* below every finite logit of the model.                                  *)
(***************************************************************************)
EXTENDS Integers, Sequences, FiniteSets, TLC

----------------------------------------------------------------------------
(* Bounds of the model *)

\* size of the engine's vocabulary: token ids are 0 .. VocabSize - 1
VocabSize == 3
\* index buffers (torch.empty) allocated over one run
MaxBufs == 4
\* index buffers allocated over one run of SpecShapes
ShapeBufs == 2

\* math.inf negated, engine.py line 44
ninf == -1000

Ids == 0 .. (VocabSize - 1)

\* lengths of the logits rows handed to the engine: too short, exact, padded
Lens == (VocabSize - 1) .. (VocabSize + 1)

\* the finite logits of a row of n entries: distinct values 1 .. n
Logits(n) == [i \in 1 .. n |-> i]

----------------------------------------------------------------------------
(* Tensor and array handles *)

Prod(shape) ==
  IF Len(shape) = 0 THEN 1
  ELSE IF Len(shape) = 1 THEN shape[1]
  ELSE shape[1] * shape[2]

Shapes ==
  {<<>>, <<1, VocabSize>>, <<2, VocabSize>>} \cup {<<n>> : n \in Lens}

Tensor(kind, shape, native) ==
  [kind |-> kind, shape |-> shape, native |-> native,
   data |-> Logits(Prod(shape))]

\* torch tensors and numpy arrays of every shape, and a Python list
Handles ==
  {Tensor(k, s, nat) : k \in {"torch", "numpy"}, s \in Shapes, nat \in BOOLEAN}
    \cup {Tensor("list", <<VocabSize>>, FALSE)}

\* one-dimensional torch tensors
FastHandles == {Tensor("torch", <<n>>, TRUE) : n \in Lens}

\* tensor.shape[-1]
LastDim(shape) == shape[Len(shape)]

----------------------------------------------------------------------------
(* The internal engine, seen through the wrapper's forwarding methods *)

RECURSIVE SortedSeq(_)
SortedSeq(S) ==
  IF S = {} THEN <<>>
  ELSE LET m == CHOOSE x \in S : \A y \in S : x <= y
       IN <<m>> \o SortedSeq(S \ {m})

RECURSIVE BitsetValue(_)
BitsetValue(S) ==
  IF S = {} THEN 0
  ELSE LET m == CHOOSE x \in S : TRUE
       IN 2 ^ m + BitsetValue(S \ {m})

\* the fingerprint of an allowed set: equal sets, equal fingerprints
get_index_of_allowed_token_ids(alw) == BitsetValue(alw)

get_number_of_disallowed_token_ids(alw) == VocabSize - Cardinality(alw)

get_number_of_allowed_token_ids(alw) == Cardinality(alw)

\* the ids the engine writes into a buffer of the reported length
write_disallowed_token_ids_to_buffer(alw) == SortedSeq(Ids \ alw)

write_allowed_token_ids_to_buffer(alw) == SortedSeq(alw)

----------------------------------------------------------------------------
(* The torch operations the fast path uses, on flat contents *)

\* Tensor.index_fill_(0, index, value)
index_fill_(t, index, value) ==
  [i \in 1 .. Len(t) |->
     IF \E k \in 1 .. Len(index) : index[k] + 1 = i THEN value ELSE t[i]]

\* torch.full_like(t, fill_value = value)
full_like(t, value) == [i \in 1 .. Len(t) |-> value]

\* Tensor.take(index)
take(t, index) == [k \in 1 .. Len(index) |-> t[index[k] + 1]]

\* Tensor.put_(index, source)
put_(t, index, source) ==
  [i \in 1 .. Len(t) |->
     IF \E k \in 1 .. Len(index) : index[k] + 1 = i
     THEN source[CHOOSE k \in 1 .. Len(index) : index[k] + 1 = i]
     ELSE t[i]]

\* every index addresses an element of a tensor of n elements
InRange(index, n) == \A k \in 1 .. Len(index) : index[k] < n

\* torch.empty((length,), dtype = int64): a new buffer, its content unset
empty(id, length) == [id |-> id, len |-> length, data |-> <<>>]

\* Tensor.data_ptr(): the allocator hands out no memory for zero elements
data_ptr(buf) == IF buf.len = 0 THEN 0 ELSE 64 * buf.id

\* the buffer after the engine wrote buf.len ids at its data pointer
Written(buf, ids) == [buf EXCEPT !.data = SubSeq(ids, 1, buf.len)]

----------------------------------------------------------------------------
(* mask_logits_fast, engine.py lines 45-77 *)

\* the outcome of a call: err is the exception raised ("none": the call
\* returned) and failed the assertion that raised it, same says the returned
\* handle is the caller's object, out is the content of the returned handle,
\* inAfter the content of the caller's object after the call
Outcome(tensor, c, nb) ==
  [err |-> "none", failed |-> "none", handled |-> TRUE, same |-> TRUE,
   out |-> tensor.data, inAfter |-> tensor.data, cache |-> c, nextBuf |-> nb, allocs |-> 0,
   writes |-> <<>>, hit |-> FALSE, strategy |-> "none", result |-> "none"]

\* variant of NothingDisallowed: the shortcut of line 52 is never taken
NothingDisallowedNever(length) == FALSE

\* line 52: length == 0, nothing to mask and no buffer to hand to the engine
NothingDisallowed(length) == length = 0

\* variant of MoreDisallowed: >= for >
MoreOrHalfDisallowed(num_of_disallowed, n) == 2 * num_of_disallowed >= n

\* line 69: num_of_disallowed > tensor.shape[-1] / 2
MoreDisallowed(num_of_disallowed, n) == 2 * num_of_disallowed > n

\* lines 70-73: a new tensor of -inf with the allowed entries copied in
KeepAllowed(data, allowed) ==
  put_(full_like(data, ninf), allowed, take(data, allowed))

\* line 75: -inf written over the disallowed entries of the tensor itself
SuppressDisallowed(data, disallowed) == index_fill_(data, disallowed, ninf)

\* lines 69-76, with the index buffers resolved; part is the set of ids an
\* index_fill_ that stops at an index out of range had reached
ApplyMask(o, tensor, num_of_disallowed, pair, part) ==
  LET n == LastDim(tensor.shape)
      reached == SortedSeq({d \in part : d < n /\
                    \E k \in 1 .. Len(pair.disallowed.data) :
                        pair.disallowed.data[k] = d})
  IN IF MoreDisallowed(num_of_disallowed, n)
     THEN IF InRange(pair.allowed.data, n)
          THEN [o EXCEPT !.strategy = "keep", !.same = FALSE,
                         !.out = KeepAllowed(tensor.data, pair.allowed.data)]
          ELSE [o EXCEPT !.strategy = "keep", !.err = "RuntimeError",
                         !.same = FALSE, !.out = <<>>]
     ELSE IF InRange(pair.disallowed.data, n)
          THEN [o EXCEPT !.strategy = "suppress",
                   !.out = SuppressDisallowed(tensor.data, pair.disallowed.data),
                   !.inAfter = SuppressDisallowed(tensor.data, pair.disallowed.data)]
          ELSE [o EXCEPT !.strategy = "suppress", !.err = "RuntimeError",
                   !.same = FALSE, !.out = <<>>,
                   !.inAfter = SuppressDisallowed(tensor.data, reached)]

\* lines 50-68: the index buffers of the current fingerprint
mask_logits_fast(tensor, alw, c, nb, part) ==
  LET index == get_index_of_allowed_token_ids(alw)
      num_of_disallowed == get_number_of_disallowed_token_ids(alw)
      o == Outcome(tensor, c, nb)
      disallowed == Written(empty(nb + 1, num_of_disallowed),
                            write_disallowed_token_ids_to_buffer(alw))
      allowed == Written(empty(nb + 2, get_number_of_allowed_token_ids(alw)),
                         write_allowed_token_ids_to_buffer(alw))
      pair == [disallowed |-> disallowed, allowed |-> allowed]
  IN IF tensor.kind # "torch"
     THEN [o EXCEPT !.handled = FALSE, !.same = FALSE, !.out = <<>>]
     ELSE IF Len(tensor.shape) # 1
     THEN [o EXCEPT !.err = "AssertionError", !.failed = "dim",
                    !.same = FALSE, !.out = <<>>]
     ELSE IF index \notin DOMAIN c
     THEN IF NothingDisallowed(num_of_disallowed)
          THEN [o EXCEPT !.strategy = "noop"]
          ELSE IF data_ptr(disallowed) = 0
          THEN [o EXCEPT !.err = "AssertionError", !.failed = "data_ptr",
                         !.same = FALSE, !.out = <<>>, !.nextBuf = nb + 1,
                         !.allocs = 1]
          ELSE IF data_ptr(allowed) = 0
          THEN [o EXCEPT !.err = "AssertionError", !.failed = "data_ptr",
                         !.same = FALSE, !.out = <<>>, !.nextBuf = nb + 2,
                         !.allocs = 2, !.writes = <<"disallowed">>]
          ELSE ApplyMask([o EXCEPT !.cache = (index :> pair) @@ c,
                                   !.nextBuf = nb + 2, !.allocs = 2,
                                   !.writes = <<"disallowed", "allowed">>],
                         tensor, num_of_disallowed, pair, part)
     ELSE ApplyMask([o EXCEPT !.hit = TRUE], tensor, num_of_disallowed,
                    c[index], part)

----------------------------------------------------------------------------
(* The slice converters and the native masking behind them *)

\* variant of ShapeSupported: the leading dimension is not looked at
ShapeSupportedAnyRows(shape) == Len(shape) = 1 \/ Len(shape) = 2

\* _torch_slice_converter and _numpy_slice_converter: the assertion on the
\* shape (the handle itself goes on when it is float32, contiguous and on
\* the CPU, and a converted copy otherwise)
ShapeSupported(shape) ==
  Len(shape) = 1 \/ (Len(shape) = 2 /\ shape[1] = 1)

\* _convert_logits_to_slice: [err, failed, same, size]
convert_logits_to_slice(logits) ==
  IF logits.kind \notin {"torch", "numpy"}
  THEN [err |-> "TypeError", failed |-> "none", same |-> FALSE, size |-> 0]
  ELSE IF ~ShapeSupported(logits.shape)
  THEN [err |-> "AssertionError", failed |-> "shape", same |-> FALSE,
        size |-> 0]
  ELSE [err |-> "none", failed |-> "none", same |-> logits.native,
        size |-> LastDim(logits.shape)]

\* InternalEngine.mask_logits(ptr, size) on the float32 slice: -inf over the
\* ids that are not allowed
InternalMaskLogits(data, alw) ==
  [i \in 1 .. Len(data) |->
     IF (i - 1) \in Ids /\ (i - 1) \notin alw THEN ninf ELSE data[i]]

\* InternalEngine.mask_logits raises ValueError on a slice shorter than the
\* vocabulary
TooShort(size) == size < VocabSize

\* lines 195-197 of Engine.mask_logits
mask_logits_slow(logits, alw, c, nb) ==
  LET o == Outcome(logits, c, nb)
      conv == convert_logits_to_slice(logits)
      masked == InternalMaskLogits(logits.data, alw)
  IN IF conv.err # "none"
     THEN [o EXCEPT !.err = conv.err, !.failed = conv.failed,
                    !.same = FALSE, !.out = <<>>]
     ELSE IF TooShort(conv.size)
     THEN [o EXCEPT !.err = "ValueError", !.same = FALSE, !.out = <<>>]
     ELSE [o EXCEPT !.strategy = "native", !.same = conv.same,
                    !.out = masked,
                    !.inAfter = IF conv.same THEN masked ELSE logits.data]

\* Engine.mask_logits, lines 192-197; fast says the torch fast path is
\* registered (lines 250-251)
mask_logits(logits, alw, c, nb, fast, part) ==
  LET result == mask_logits_fast(logits, alw, c, nb, part)
  IN IF fast /\ result.handled
     THEN result
     ELSE mask_logits_slow(logits, alw, c, nb)

\* Engine.update_logits, lines 226-228; accepted is the allowed set after
\* the engine accepted token_id
update_logits(token_id, logits, alw, c, nb, accepted) ==
  LET o == Outcome(logits, c, nb)
      conv == convert_logits_to_slice(logits)
      masked == InternalMaskLogits(logits.data, accepted)
  IN IF conv.err # "none"
     THEN [o EXCEPT !.err = conv.err, !.failed = conv.failed,
                    !.same = FALSE, !.out = <<>>]
     ELSE IF TooShort(conv.size)
     THEN [o EXCEPT !.err = "ValueError", !.same = FALSE, !.out = <<>>]
     ELSE IF token_id \notin alw
     THEN [o EXCEPT !.strategy = "native", !.same = conv.same,
                    !.result = "Rejected"]
     ELSE [o EXCEPT !.strategy = "native", !.same = conv.same,
                    !.out = masked, !.result = "Accepted",
                    !.inAfter = IF conv.same THEN masked ELSE logits.data]

----------------------------------------------------------------------------
(* The Triton kernel of triton_logits_mask.py, on flat memories: the logits
   of batch row r at addresses r * vocab_size .. and the bitmask words the
   kernel reads at bitmask_ptr + batch_id * bitmask_size .. *)

\* bits of a bitmask word: tl.arange(0, 32), line 35
WORD_BITS == 32
\* BLOCK_SIZE // 32, line 29: the words a work unit loads.  The source sets
\* BLOCK_SIZE = 4096 (line 50), 128 words; the model runs the kernel on
\* smaller blocks of whole words.
BlockWords == 2
BLOCK_SIZE == BlockWords * WORD_BITS
\* rows of a batch
MaxRows == 2
\* torch.cuda.get_device_properties("cuda").multi_processor_count, line 49
MaxSMS == 2

\* the vocabularies of the batched masker: one partial block, and a full
\* block followed by a partial one
VocabSizes == {40, BLOCK_SIZE + 6}

\* ceil_div, lines 46-47, and tl.cdiv, line 23
ceil_div(a, b) == (a + b - 1) \div b

MinInt32 == -2147483647 - 1

\* (packed >> b) & 1 on a signed 32-bit word, line 35
Bit(packed, b) ==
  IF b = WORD_BITS - 1
  THEN IF packed < 0 THEN 1 ELSE 0
  ELSE (packed \div (2 ^ b)) % 2

\* variant of StoreBit: == 1 for == 0
StoreBitSet(packed, b) == Bit(packed, b) = 1

\* line 35: the element of the unpacked bitmask that lets the store through
StoreBit(packed, b) == Bit(packed, b) = 0

\* torch.arange(batch_size), line 61
arange(n) == [i \in 1 .. n |-> i - 1]

\* indices = None
None == <<>>

\* lines 60-63: the row indices handed to the kernel
KernelIndices(indices, batch_size) ==
  IF indices = None THEN arange(batch_size) ELSE indices

\* tl.load at word address addr of the bitmask memory; undef is what a read
\* past the memory yields
Load(mem, addr, undef) ==
  IF addr < Len(mem) THEN mem[addr + 1] ELSE undef

\* line 24: the number of work units of a launch
TotalUnits(K) == K.num_rows * ceil_div(K.vocab_size, BLOCK_SIZE)

\* lines 25-38: the logits addresses work unit work_id stores -inf to;
\* undef is what its undefined loads yield (masked-off lanes of tl.load,
\* and words past the bitmask memory)
UnitStores(K, mem, work_id, undef) ==
  LET num_blocks == ceil_div(K.vocab_size, BLOCK_SIZE)
      block_offset == (work_id % num_blocks) * BLOCK_SIZE
      row_id == work_id \div num_blocks
      batch_id == K.indices[row_id + 1]
      packed(j) ==
        LET bitmask_offset == block_offset \div WORD_BITS + j
        IN IF bitmask_offset < K.bitmask_size
           THEN Load(mem, K.bitmask_ptr + batch_id * K.bitmask_size
                            + bitmask_offset, undef)
           ELSE undef
  IN {batch_id * K.vocab_size + block_offset + e :
        e \in {x \in 0 .. (BLOCK_SIZE - 1) :
                 /\ block_offset + x < K.vocab_size
                 /\ StoreBit(packed(x \div WORD_BITS), x % WORD_BITS)}}

\* tl.store of -inf at the addresses of S, line 38
Store(mem, S) ==
  [a \in {b + 1 : b \in S} |-> ninf] @@ mem

\* the bitmask rows the engines fill, as words
RowPatterns == {"clear", "set", "ends", "sign"}

\* words of a row of pattern p for a vocabulary of v tokens: no bit set,
\* every bit set, bits 0 and v - 1 set, bit 31 of every word set
Word(p, v, w) ==
  IF p = "clear" THEN 0
  ELSE IF p = "set" THEN -1
  ELSE IF p = "sign" THEN MinInt32
  ELSE (IF w = 0 THEN 1 ELSE 0)
       + (IF w = (v - 1) \div WORD_BITS THEN 2 ^ ((v - 1) % WORD_BITS) ELSE 0)

\* the pattern of the engine (or bitmask row) r when the first has pattern p
RowPattern(p, r) ==
  LET order == <<"clear", "ends", "sign", "set">>
      at == CHOOSE i \in 1 .. 4 : order[i] = p
  IN order[((at - 1 + r) % 4) + 1]

\* Engine.fill_torch_bitmask(ptr) of the engines 0 .. n - 1 into n rows of
\* ceil(v / 32) words
FilledRows(p, n, v) ==
  [a \in 1 .. (n * ceil_div(v, WORD_BITS)) |->
     Word(RowPattern(p, (a - 1) \div ceil_div(v, WORD_BITS)), v,
          (a - 1) % ceil_div(v, WORD_BITS))]

----------------------------------------------------------------------------
(* The engine wrapper as a state machine *)

VARIABLES
  allowed,    \* the internal engine's allowed token ids of the last computation
  cache,      \* Engine._cache: fingerprint -> [disallowed, allowed] buffers
  nextBuf,    \* index buffers allocated so far
  fastMask,   \* the torch fast path is registered
  last,       \* the last call on the engine and its outcome
  kern,       \* the arguments of the batched call and of its kernel launch
  bmem,       \* the words of the bitmask tensor
  lmem,       \* the logits of the batch, row after row
  lane,       \* program id -> the work unit it runs next
  unitlog     \* work unit -> the program that ran it, how often, its stores

evars == <<allowed, cache, nextBuf, fastMask, last>>

kvars == <<kern, bmem, lmem, lane, unitlog>>

vars == <<allowed, cache, nextBuf, fastMask, last, kern, bmem, lmem, lane,
          unitlog>>

NoHandle == [kind |-> "none", shape |-> <<>>, native |-> FALSE, data |-> <<>>]

Call(op, logits, o) == [op |-> op, logits |-> logits, o |-> o]

NoCall(op) == Call(op, NoHandle, Outcome(NoHandle, <<>>, 0))

\* the arguments of a call of the batched masker: a batch of batch_size
\* rows of vocab_size logits, as many engines (the first of pattern p) and
\* bitmask rows, the indices if any, and the NUM_SMS of the device
Arguments(batch_size, vocab_size, p, indices, NUM_SMS) ==
  [entry |-> "none", batch_size |-> batch_size, num_rows |-> 0,
   vocab_size |-> vocab_size, pattern |-> p, bitmask_size |-> 0,
   NUM_SMS |-> NUM_SMS, indices |-> indices, bitmask_ptr |-> 0]

\* no batch is being masked
KernelIdle ==
  /\ kern = Arguments(0, 0, "clear", None, 0)
  /\ bmem = <<>>
  /\ lmem = <<>>
  /\ lane = <<>>
  /\ unitlog = <<>>

\* Engine.__init__, lines 108-110
EngineInit ==
  /\ allowed \in SUBSET Ids
  /\ cache = <<>>
  /\ nextBuf = 0
  /\ last = NoCall("init")
  /\ KernelIdle

\* Engine.compute_allowed_token_ids, lines 121-122
ComputeAllowedTokenIds ==
  /\ \E S \in SUBSET Ids : allowed' = S
  /\ last' = NoCall("compute_allowed_token_ids")
  /\ UNCHANGED <<cache, nextBuf, fastMask>>
  /\ UNCHANGED kvars

\* variant of Reset: the cache is dropped
ResetDroppingCache ==
  /\ \E S \in SUBSET Ids : allowed' = S
  /\ last' = NoCall("reset")
  /\ cache' = <<>>
  /\ UNCHANGED <<nextBuf, fastMask>>
  /\ UNCHANGED kvars

\* Engine.reset, lines 157-158
Reset ==
  /\ \E S \in SUBSET Ids : allowed' = S
  /\ last' = NoCall("reset")
  /\ UNCHANGED <<cache, nextBuf, fastMask>>
  /\ UNCHANGED kvars

\* Engine.shrink_to_fit, lines 154-155
ShrinkToFit ==
  /\ last' = NoCall("shrink_to_fit")
  /\ UNCHANGED <<allowed, cache, nextBuf, fastMask>>
  /\ UNCHANGED kvars

\* Engine.__copy__ and __deepcopy__, lines 236-246: the engine from here on
\* is the copy
Copy ==
  /\ cache' = <<>>
  /\ last' = NoCall("copy")
  /\ UNCHANGED <<allowed, nextBuf, fastMask>>
  /\ UNCHANGED kvars

\* the ids an index_fill_ may have reached when it stops at an index out of
\* range: any of them on a tensor shorter than the vocabulary
Parts(logits) ==
  IF logits.kind = "torch" /\ Len(logits.shape) = 1
       /\ LastDim(logits.shape) < VocabSize
  THEN SUBSET (0 .. (LastDim(logits.shape) - 1))
  ELSE {{}}

\* Engine.mask_logits, lines 160-197, on a handle of H with at most cap index
\* buffers allocated
MaskLogitsOn(H, cap) ==
  \E logits \in H :
    \E part \in Parts(logits) :
      LET o == mask_logits(logits, allowed, cache, nextBuf, fastMask, part)
      IN /\ o.nextBuf <= cap
         /\ cache' = o.cache
         /\ nextBuf' = o.nextBuf
         /\ last' = Call("mask_logits", logits, o)
         /\ UNCHANGED <<allowed, fastMask>>
         /\ UNCHANGED kvars

\* the allowed set after the call: unchanged when token_id is rejected, and
\* otherwise the one the engine computes next (here nothing, everything, or
\* everything but token_id)
Accepting(token_id, alw) ==
  IF token_id \in alw THEN {{}, Ids, Ids \ {token_id}} ELSE {alw}

\* Engine.update_logits, lines 199-228
UpdateLogits ==
  \E logits \in Handles, token_id \in Ids :
    \E accepted \in Accepting(token_id, allowed) :
      LET o == update_logits(token_id, logits, allowed, cache, nextBuf, accepted)
      IN /\ allowed' = IF o.result = "Accepted" THEN accepted ELSE allowed
         /\ last' = Call("update_logits", logits, o)
         /\ UNCHANGED <<cache, nextBuf, fastMask>>
         /\ UNCHANGED kvars

----------------------------------------------------------------------------
(* Spec: one engine with the torch fast path, masking 1-D torch tensors *)

Init == EngineInit /\ fastMask = TRUE

MaskLogits == MaskLogitsOn(FastHandles, MaxBufs)

Next ==
  \/ ComputeAllowedTokenIds
  \/ Reset
  \/ ShrinkToFit
  \/ Copy
  \/ MaskLogits

Spec == Init /\ [][Next]_vars

----------------------------------------------------------------------------
(* SpecShapes: handles of every kind and shape, with and without the fast
   path *)

InitShapes == EngineInit /\ fastMask \in BOOLEAN

MaskLogitsAny == MaskLogitsOn(Handles, ShapeBufs)

NextShapes ==
  \/ ComputeAllowedTokenIds
  \/ MaskLogitsAny
  \/ UpdateLogits

SpecShapes == InitShapes /\ [][NextShapes]_vars

----------------------------------------------------------------------------
(* SpecKernel: one call of the batched masker on arguments drawn at the
   start, its programs interleaved *)

\* every program of the grid has left its loop
Finished ==
  kern.entry # "none"
    /\ \A pid \in DOMAIN lane : lane[pid] >= TotalUnits(kern)

\* lines 49-78: the launch of NUM_SMS programs, with the bitmask words mem
\* read from word address bitmask_ptr on
Launch(entry, mem, bitmask_ptr) ==
  /\ kern' = [kern EXCEPT
                !.entry = entry,
                !.num_rows = Len(KernelIndices(kern.indices, kern.batch_size)),
                !.bitmask_size = ceil_div(kern.vocab_size, WORD_BITS),
                !.indices = KernelIndices(kern.indices, kern.batch_size),
                !.bitmask_ptr = bitmask_ptr]
  /\ bmem' = mem
  /\ lane' = [pid \in 0 .. (kern.NUM_SMS - 1) |-> pid]
  /\ UNCHANGED <<lmem, unitlog>>

\* the row indices a caller passes for a batch of n rows: none, or up to n
\* rows of the batch in any order
IndexChoices(n) ==
  {None} \cup UNION {[1 .. m -> 0 .. (n - 1)] : m \in 1 .. n}

\* _apply_token_bitmask_inplace_triton(logits, bitmask, indices), lines
\* 41-78, on a bitmask tensor of one row per logits row
ApplyTokenBitmaskInplaceTriton ==
  /\ kern.entry = "none"
  /\ Launch("_apply_token_bitmask_inplace_triton",
            FilledRows(kern.pattern, kern.batch_size, kern.vocab_size), 0)
  /\ UNCHANGED evars

\* the word address of the row that the loop variable of line 100 holds
\* after the loop over n engines and rows
LastRowPtr(n, bitmask_size) == (n - 1) * bitmask_size

\* mask_logits_inplace(logits, bitmasks, engines, indices), lines 80-102:
\* the engines fill the rows of bitmasks, then line 102 launches the kernel
MaskLogitsInplace ==
  /\ kern.entry = "none"
  /\ Launch("mask_logits_inplace",
            FilledRows(kern.pattern, kern.batch_size, kern.vocab_size),
            LastRowPtr(kern.batch_size, ceil_div(kern.vocab_size, WORD_BITS)))
  /\ UNCHANGED evars

\* what an undefined load may yield
UndefWords == {0, -1}

\* variant of NextUnit: a stride of 1
NextUnitByOne(work_id, NUM_SMS) == work_id + 1

\* tl.range(pid, num_rows * num_blocks, NUM_SMS), line 24: the work unit
\* after work_id in a program
NextUnit(work_id, NUM_SMS) == work_id + NUM_SMS

\* one iteration of the loop of line 24 in program pid
LaneStep(pid) ==
  /\ kern.entry # "none"
  /\ pid \in DOMAIN lane
  /\ lane[pid] < TotalUnits(kern)
  /\ \E undef \in UndefWords :
       LET S == UnitStores(kern, bmem, lane[pid], undef)
           runs == IF lane[pid] \in DOMAIN unitlog
                   THEN unitlog[lane[pid]].runs ELSE 0
       IN /\ unitlog' = (lane[pid] :>
                           [pid |-> pid, runs |-> runs + 1, stores |-> S])
                        @@ unitlog
          /\ lmem' = Store(lmem, unitlog'[lane[pid]].stores)
  /\ lane' = [lane EXCEPT ![pid] = NextUnit(@, kern.NUM_SMS)]
  /\ UNCHANGED <<kern, bmem>>
  /\ UNCHANGED evars

InitKernel ==
  /\ allowed = {}
  /\ cache = <<>>
  /\ nextBuf = 0
  /\ fastMask = TRUE
  /\ last = NoCall("init")
  /\ \E n \in 1 .. MaxRows, v \in VocabSizes, p \in RowPatterns,
        NUM_SMS \in 1 .. MaxSMS :
       \E indices \in IndexChoices(n) :
         /\ kern = Arguments(n, v, p, indices, NUM_SMS)
         /\ lmem = Logits(n * v)
  /\ bmem = <<>>
  /\ lane = <<>>
  /\ unitlog = <<>>

NextKernel ==
  \/ ApplyTokenBitmaskInplaceTriton
  \/ MaskLogitsInplace
  \/ \E pid \in 0 .. (MaxSMS - 1) : LaneStep(pid)

SpecKernel == InitKernel /\ [][NextKernel]_vars

----------------------------------------------------------------------------
(* Claims on the fast path and its cache, checked under Spec *)

\* the last call was Engine.mask_logits on a tensor as long as the vocabulary
MaskedExact ==
  last.op = "mask_logits" /\ LastDim(last.logits.shape) = VocabSize

\* C1 (complementarity on the fast path): on a tensor as long as the
\* vocabulary, whatever the allowed set, mask_logits returns logits that are
\* -inf at exactly the disallowed ids (disallowed_count of them) and the
\* input value at every allowed id (allowed_count of them), on either
\* strategy, cache hit or miss.
C1_Complementarity ==
  MaskedExact =>
    /\ last.o.err = "none"
    /\ Len(last.o.out) = VocabSize
    /\ \A i \in Ids :
         last.o.out[i + 1] = IF i \in allowed THEN last.logits.data[i + 1]
                                              ELSE ninf
    /\ Cardinality({i \in Ids : last.o.out[i + 1] = ninf})
         = get_number_of_disallowed_token_ids(allowed)
    /\ Cardinality({i \in Ids : last.o.out[i + 1] = last.logits.data[i + 1]})
         = get_number_of_allowed_token_ids(allowed)

\* C1, where it holds: the same with at least one token allowed.
C1_SomeAllowed == (allowed # {}) => C1_Complementarity

\* the last call was Engine.mask_logits and one of the two strategies
\* returned, on a tensor that holds every id of the vocabulary
MaskedByStrategy ==
  /\ last.op = "mask_logits"
  /\ last.o.err = "none"
  /\ last.o.strategy \in {"keep", "suppress"}
  /\ LastDim(last.logits.shape) >= VocabSize

\* C2 (strategy equivalence): what mask_logits returned is, at every
\* position of the tensor, what the suppress-disallowed path gives and what
\* the keep-allowed path gives on that input and those id sets, whichever
\* path the length of the tensor selected.
C2_StrategyEquivalence ==
  MaskedByStrategy =>
    /\ last.o.out = SuppressDisallowed(last.logits.data,
                       write_disallowed_token_ids_to_buffer(allowed))
    /\ last.o.out = KeepAllowed(last.logits.data,
                       write_allowed_token_ids_to_buffer(allowed))

\* C2, where it holds: the same on tensors exactly as long as the vocabulary.
C2_ExactLength == MaskedExact => C2_StrategyEquivalence

\* every entry of the cache holds both buffers
BothBuffers(c) ==
  \A f \in DOMAIN c : DOMAIN c[f] = {"disallowed", "allowed"}

\* a step of mask_logits on a cached fingerprint: the stored pair is used,
\* nothing is allocated and nothing is written
HitStep ==
  /\ cache' = cache
  /\ nextBuf' = nextBuf
  /\ last'.o.hit
  /\ last'.o.allocs = 0
  /\ last'.o.writes = <<>>

\* a step of mask_logits on a new fingerprint: one new entry, sized to the
\* reported counts, the other entries as they were
MissStep(index) ==
  /\ DOMAIN cache' = DOMAIN cache \cup {index}
  /\ cache'[index].disallowed.len = get_number_of_disallowed_token_ids(allowed)
  /\ cache'[index].allowed.len = get_number_of_allowed_token_ids(allowed)
  /\ Len(cache'[index].disallowed.data) = cache'[index].disallowed.len
  /\ Len(cache'[index].allowed.data) = cache'[index].allowed.len
  /\ \A f \in DOMAIN cache : cache'[f] = cache[f]

CacheStep ==
  LET index == get_index_of_allowed_token_ids(allowed)
  IN /\ (index \in DOMAIN cache) => HitStep
     /\ (index \notin DOMAIN cache
           /\ get_number_of_disallowed_token_ids(allowed) > 0)
          => MissStep(index)
     /\ BothBuffers(cache')

\* C3 (cache correctness): every mask_logits call on a cached fingerprint
\* reuses the stored pair without allocating or writing, every call on a
\* new fingerprint with disallowed_count > 0 adds exactly one entry sized to
\* the reported counts and leaves the others unchanged, and no entry ever
\* lacks one of its buffers.
C3_CacheCorrectness == [][(last'.op = "mask_logits") => CacheStep]_vars

\* C3, where it holds: the same for calls with at least one token allowed.
C3_SomeAllowed ==
  [][(last'.op = "mask_logits" /\ allowed # {}) => CacheStep]_vars

\* C4 (clearing the cache), as claimed: after reset() or shrink_to_fit()
\* the cache is empty.
C4_ResetClears ==
  (last.op \in {"reset", "shrink_to_fit"}) => cache = <<>>

\* C4, amended: reset() and shrink_to_fit() leave the cache and its buffers
\* exactly as they were; the cache is empty on a new engine and on a copy.
C4_ResetKeepsCache ==
  /\ [](last.op \in {"init", "copy"} => cache = <<>>)
  /\ [][(last'.op \in {"reset", "shrink_to_fit"})
          => (cache' = cache /\ nextBuf' = nextBuf)]_vars

\* C4 witness: reset() or shrink_to_fit() returned and the cache still
\* holds an entry.
C4_Witness ==
  last.op \in {"reset", "shrink_to_fit"} /\ DOMAIN cache # {}

----------------------------------------------------------------------------
(* Claims on handles of every kind and shape, checked under SpecShapes *)

\* rank 1, or rank 2 with a leading dimension of 1
RankOk(shape) == Len(shape) = 1 \/ (Len(shape) = 2 /\ shape[1] = 1)

\* the call is Engine.mask_logits on a torch tensor with the fast path
\* registered
OnFastPath(call) ==
  call.op = "mask_logits" /\ fastMask /\ call.logits.kind = "torch"

\* the last call was mask_logits on a float32, contiguous, host-resident
\* torch tensor or numpy array, and it returned
MaskedNative ==
  /\ last.op = "mask_logits"
  /\ last.logits.kind \in {"torch", "numpy"}
  /\ last.logits.native
  /\ last.o.err = "none"

\* the returned content is -inf at every disallowed id the row holds
Masked(call) ==
  \A i \in Ids :
    (i < LastDim(call.logits.shape) /\ i \notin allowed)
      => call.o.out[i + 1] = ninf

\* C7 (in-place identity), as claimed: mask_logits on a float32, contiguous,
\* host-resident torch tensor or numpy array returns the input object, masked
\* in place, on either strategy.
C7_InPlace ==
  MaskedNative => (last.o.same /\ last.o.inAfter = last.o.out /\ Masked(last))

\* C7, amended: the same, except that the torch fast path with more than
\* half of the row disallowed returns a new masked tensor and leaves the
\* input object as it was.
C7_InPlaceUnlessKeepAllowed ==
  MaskedNative =>
    /\ Masked(last)
    /\ IF OnFastPath(last)
            /\ 2 * get_number_of_disallowed_token_ids(allowed)
                 > LastDim(last.logits.shape)
       THEN ~last.o.same /\ last.o.inAfter = last.logits.data
       ELSE last.o.same /\ last.o.inAfter = last.o.out

\* C7 witness: a native torch tensor went through the keep-allowed strategy
\* and came back as another object, the input unchanged.
C7_Witness ==
  /\ MaskedNative
  /\ last.logits.kind = "torch"
  /\ ~last.o.same
  /\ last.o.inAfter = last.logits.data
  /\ last.o.out # last.logits.data

\* a step of mask_logits that allocates nothing, writes nothing and leaves
\* the cache alone
NoCacheEffect ==
  /\ last'.o.allocs = 0
  /\ last'.o.writes = <<>>
  /\ cache' = cache
  /\ nextBuf' = nextBuf

\* C8 (zero-disallowed no-op), as claimed: with nothing disallowed, a
\* mask_logits call that returns hands back the input object itself, its
\* content unchanged, and has no effect on buffers, engine or cache.
C8_ZeroDisallowedNoop ==
  [][(last'.op = "mask_logits" /\ last'.o.err = "none"
        /\ get_number_of_disallowed_token_ids(allowed) = 0)
       => /\ last'.o.same
          /\ last'.o.out = last'.logits.data
          /\ last'.o.inAfter = last'.logits.data
          /\ NoCacheEffect]_vars

\* the handles mask_logits takes when nothing is disallowed
TakenWhenZero(call) ==
  IF OnFastPath(call)
  THEN Len(call.logits.shape) = 1
  ELSE /\ call.logits.kind \in {"torch", "numpy"}
       /\ RankOk(call.logits.shape)
       /\ LastDim(call.logits.shape) >= VocabSize

\* C8, amended: with nothing disallowed, mask_logits returns logits with the
\* input's content, leaves the input object untouched and has no effect on
\* buffers, engine or cache; the returned handle is the input object when
\* the fast path took it (a 1-D torch tensor) or when it is already float32,
\* contiguous and host-resident, and a converted copy otherwise.
C8_ZeroDisallowedSameContent ==
  [][(last'.op = "mask_logits"
        /\ get_number_of_disallowed_token_ids(allowed) = 0)
       => /\ (last'.o.err = "none") <=> TakenWhenZero(last')
          /\ (last'.o.err = "none") =>
               /\ last'.o.out = last'.logits.data
               /\ last'.o.same <=> (OnFastPath(last') \/ last'.logits.native)
          /\ last'.o.inAfter = last'.logits.data
          /\ NoCacheEffect]_vars

\* C8 witness: nothing is disallowed and mask_logits returned a converted
\* copy of a numpy array.
C8_Witness ==
  /\ last.op = "mask_logits"
  /\ allowed = Ids
  /\ last.o.err = "none"
  /\ last.logits.kind = "numpy"
  /\ ~last.o.same
  /\ last.o.out = last.logits.data

\* the last call was mask_logits or update_logits on a torch tensor or a
\* numpy array
OnRecognised(call) ==
  /\ call.op \in {"mask_logits", "update_logits"}
  /\ call.logits.kind \in {"torch", "numpy"}

\* the call failed the assertion on the shape of the logits
ShapeError(call) ==
  call.o.err = "AssertionError" /\ call.o.failed \in {"shape", "dim"}

\* C9 (shape precondition), as claimed: mask_logits and update_logits take a
\* torch tensor or numpy array exactly when it has rank 1 or rank 2 with a
\* leading dimension of 1, and reject every other shape with an
\* AssertionError that leaves logits, cache and engine unmodified.
C9_ShapePrecondition ==
  [][OnRecognised(last')
       => /\ ShapeError(last') <=> ~RankOk(last'.logits.shape)
          /\ ShapeError(last') =>
               /\ last'.o.inAfter = last'.logits.data
               /\ cache' = cache /\ nextBuf' = nextBuf /\ allowed' = allowed
     ]_vars

\* the shapes a call takes
ShapeTaken(call) ==
  IF OnFastPath(call)
  THEN Len(call.logits.shape) = 1
  ELSE RankOk(call.logits.shape)

\* C9, amended: the same, except that mask_logits on a torch tensor, with
\* the torch fast path registered, takes rank 1 only and rejects the shape
\* (1, n) as well.
C9_ShapePreconditionFast ==
  [][OnRecognised(last')
       => /\ ShapeError(last') <=> ~ShapeTaken(last')
          /\ ShapeError(last') =>
               /\ last'.o.inAfter = last'.logits.data
               /\ cache' = cache /\ nextBuf' = nextBuf /\ allowed' = allowed
     ]_vars

\* C9 witness: mask_logits rejected a torch tensor of shape (1, n).
C9_Witness ==
  /\ last.op = "mask_logits"
  /\ last.logits.kind = "torch"
  /\ last.logits.shape = <<1, VocabSize>>
  /\ ShapeError(last)

----------------------------------------------------------------------------
(* Claims on the batched masker, checked under SpecKernel *)

Launched == kern.entry # "none"

\* the batch rows the launch names
TargetRows == {kern.indices[i] : i \in DOMAIN kern.indices}

\* every word the kernel reads for its rows lies in the bitmask tensor
ReadsInTensor ==
  \A r \in TargetRows :
    kern.bitmask_ptr + (r + 1) * kern.bitmask_size <= Len(bmem)

\* bit p of the packed row the kernel reads for batch row r
KernelBit(r, p) ==
  Bit(bmem[kern.bitmask_ptr + r * kern.bitmask_size + p \div 32 + 1], p % 32)

\* the logit of token p in batch row r, and what it was at the launch
Logit(r, p) == lmem[r * kern.vocab_size + p + 1]

Original(r, p) == r * kern.vocab_size + p + 1

Tokens == 0 .. (kern.vocab_size - 1)

\* C5 (bitmask polarity), as claimed: when the kernel has run, position p
\* of a row is -inf exactly when bit p mod 32 of word p div 32 of the row's
\* packed bitmask is set, and unchanged when it is clear.
C5_SetBitMasks ==
  (Launched /\ Finished /\ ReadsInTensor) =>
    \A r \in TargetRows : \A p \in Tokens :
      Logit(r, p) = IF KernelBit(r, p) = 1 THEN ninf ELSE Original(r, p)

\* C5, amended: the polarity is the opposite.  The kernel writes -inf at
\* position p exactly when the bit is clear (a set bit keeps the token) and
\* leaves p unchanged when the bit is set; rows the launch does not name
\* are unchanged.  For a vocabulary of 40 with only bits 0 and 39 set,
\* every position but 0 and 39 becomes -inf.
C5_ClearBitMasks ==
  (Launched /\ ReadsInTensor) =>
    /\ \A r \in TargetRows : \A p \in Tokens :
         /\ Logit(r, p) \in {ninf, Original(r, p)}
         /\ Logit(r, p) = ninf => KernelBit(r, p) = 0
         /\ (Finished /\ KernelBit(r, p) = 0) => Logit(r, p) = ninf
    /\ \A r \in (0 .. (kern.batch_size - 1)) \ TargetRows : \A p \in Tokens :
         Logit(r, p) = Original(r, p)

\* C5 witness: a vocabulary of 40, only bits 0 and 39 of the row set, and
\* after the kernel positions 0 and 39 are the only ones left.
C5_Witness ==
  /\ Launched /\ Finished /\ ReadsInTensor
  /\ kern.vocab_size = 40
  /\ 0 \in TargetRows
  /\ {p \in Tokens : KernelBit(0, p) = 1} = {0, 39}
  /\ {p \in Tokens : Logit(0, p) # ninf} = {0, 39}

\* bit p of the row that engine r filled
EngineBit(r, p) == Bit(bmem[r * kern.bitmask_size + p \div 32 + 1], p % 32)

\* the ids a packed row disallows, read the way the kernel reads it
DecodedDisallowed(r) == {p \in Tokens : EngineBit(r, p) = 0}

\* row r of the batch masked alone over a list of disallowed ids
ScalarMasked(r, disallowed) ==
  [p \in Tokens |-> IF p \in disallowed THEN ninf ELSE Original(r, p)]

\* C6 (per-row masking): after mask_logits_inplace on N rows, N engines and
\* N bitmask rows with the default indices, every row r is masked with the
\* bitmask engines[r] filled into row r, as scalar masking of row r with the
\* ids decoded from that row would, and no word outside the N rows is read.
C6_PerRowMasking ==
  (Finished /\ kern.entry = "mask_logits_inplace"
     /\ kern.indices = arange(kern.batch_size)) =>
    /\ ReadsInTensor
    /\ \A r \in TargetRows :
         [p \in Tokens |-> Logit(r, p)] = ScalarMasked(r, DecodedDisallowed(r))

\* C6, where it holds: the same for a single row.
C6_SingleRow == (kern.batch_size = 1) => C6_PerRowMasking

\* the batch row and the block of work unit w, lines 25-27
UnitRow(w) == kern.indices[w \div ceil_div(kern.vocab_size, BLOCK_SIZE) + 1]

UnitBlock(w) == w % ceil_div(kern.vocab_size, BLOCK_SIZE)

\* logits address a lies in the row and block of work unit w, at an offset
\* below vocab_size
OwnBlock(w, a) ==
  /\ a >= UnitRow(w) * kern.vocab_size
  /\ a < (UnitRow(w) + 1) * kern.vocab_size
  /\ (a - UnitRow(w) * kern.vocab_size) \div BLOCK_SIZE = UnitBlock(w)

Units == 0 .. (TotalUnits(kern) - 1)

\* program pid runs the units pid, pid + NUM_SMS, ... in turn, each once
Partitioned ==
  /\ DOMAIN lane = 0 .. (kern.NUM_SMS - 1)
  /\ \A pid \in DOMAIN lane : lane[pid] % kern.NUM_SMS = pid
  /\ DOMAIN unitlog = {w \in Units : w < lane[w % kern.NUM_SMS]}
  /\ \A w \in DOMAIN unitlog :
       unitlog[w].pid = w % kern.NUM_SMS /\ unitlog[w].runs = 1
  /\ Finished => DOMAIN unitlog = Units

\* every unit stores within its own row and block
OwnWrites ==
  \A w \in DOMAIN unitlog : \A a \in unitlog[w].stores : OwnBlock(w, a)

\* no address is stored to by two of the units w1 and w2
Disjoint(w1, w2) == unitlog[w1].stores \cap unitlog[w2].stores = {}

\* C10 (work distribution), as claimed: for any row-index array the units
\* are partitioned among the programs, each runs once, each stores only
\* within its row and block below vocab_size, and no logits position is
\* stored to by two different units.
C10_WorkDistribution ==
  Launched =>
    /\ Partitioned
    /\ OwnWrites
    /\ \A w1, w2 \in DOMAIN unitlog : w1 # w2 => Disjoint(w1, w2)

\* the rows of two units differ, or their blocks do
OtherRowOrBlock(w1, w2) ==
  UnitRow(w1) # UnitRow(w2) \/ UnitBlock(w1) # UnitBlock(w2)

\* the safety part of C10 for row-index arrays that name no row twice
DistinctRowsDisjoint ==
  Launched =>
    /\ Partitioned
    /\ OwnWrites
    /\ \A w1, w2 \in DOMAIN unitlog :
         OtherRowOrBlock(w1, w2) => Disjoint(w1, w2)
    /\ (Cardinality(TargetRows) = kern.num_rows) =>
         \A w1, w2 \in DOMAIN unitlog : w1 # w2 => Disjoint(w1, w2)

\* a step of a launched grid runs one unit that was left to one program and
\* moves that program's loop variable up, by less than would skip a unit of
\* its own; the other programs stay where they are
LoopAdvances ==
  Launched =>
    \E pid \in DOMAIN lane :
      /\ lane[pid] \in Units
      /\ lane'[pid] > lane[pid]
      /\ lane'[pid] < Cardinality(Units) + kern.NUM_SMS
      /\ \A q \in DOMAIN lane \ {pid} : lane'[q] = lane[q]

\* C10, amended: the same for row-index arrays that name no row twice.  Two
\* units of index entries naming the same row have the same block and may
\* store to the same positions; units of different rows or blocks never do.
\* Every step moves one program strictly up its bounded loop, so no program
\* runs forever.
C10_WorkDistributionDistinctRows ==
  /\ []DistinctRowsDisjoint
  /\ [][LoopAdvances]_vars

\* C10 witness: two programs have run the four units of two distinct rows
\* of two blocks each, and stored.
C10_Witness ==
  /\ Launched /\ Finished
  /\ kern.NUM_SMS = 2
  /\ Cardinality(TargetRows) = kern.num_rows
  /\ Cardinality(DOMAIN unitlog) = 4
  /\ \A w \in DOMAIN unitlog : unitlog[w].stores # {}

====
